---- MODULE Spec2Model ----
(***************************************************************************)
(* A model of the payment-instruction service                              *)
(* (src/services/onboarding/payment-instructions.js): the positional       *)
(* parser, the validation chain, the scheduling decision, the executor and *)
(* the response assembly, over JavaScript strings.                         *)
(*                                                                         *)
(* Strings are TLA+ strings (sequences of characters); positions are       *)
(* 0-based as in JavaScript.  A nullable JavaScript value is a sequence:   *)
(* Null is <<>>, a present value v is <<v>>.                               *)
(***************************************************************************)
EXTENDS Integers, Sequences, FiniteSets, TLC

VARIABLES
    accounts,   \* the caller's account objects, mutated in place by the service
    now,        \* the clock: [day |-> days since 1970-01-01, ms |-> ms within the UTC day]
    request,    \* the request of the latest call: [accounts, instruction, at]
    response,   \* the result of the latest call: [httpStatus, data]
    opening,    \* the accounts as they were before the first call
    calls       \* number of calls served so far

vars == <<accounts, now, request, response, opening, calls>>

Null == <<>>
Some(v) == <<v>>

(***************************************************************************)
(* JavaScript string primitives                                            *)
(***************************************************************************)

Min(S) == CHOOSE m \in S : \A n \in S : m <= n

\* s[i], 0-based
CharAt(s, i) == SubSeq(s, i + 1, i + 1)

\* String.prototype.substring(start, end) for 0 <= start; indices are clamped
\* to [0, length] and swapped when start > end
Substring(s, start, end) ==
    LET c(i) == IF i < 0 THEN 0 ELSE IF i > Len(s) THEN Len(s) ELSE i
        a == c(start)
        b == c(end)
        lo == IF a <= b THEN a ELSE b
        hi == IF a <= b THEN b ELSE a
    IN  SubSeq(s, lo + 1, hi)

\* String.prototype.substring(start)
SubstringFrom(s, start) == Substring(s, start, Len(s))

\* the first position i >= from at which search occurs in s, -1 if there is none
RECURSIVE Scan(_, _, _)
Scan(s, search, from) ==
    IF from > Len(s) - Len(search) THEN -1
    ELSE IF SubSeq(s, from + 1, from + Len(search)) = search THEN from
    ELSE Scan(s, search, from + 1)

\* String.prototype.indexOf(search, position): the position is clamped to
\* [0, length], so a position of -1 searches from the start
IndexOf(s, search, position) ==
    Scan(s, search, IF position < 0 THEN 0
                    ELSE IF position > Len(s) THEN Len(s) ELSE position)

LowerToUpper ==
    ("a" :> "A") @@ ("b" :> "B") @@ ("c" :> "C") @@ ("d" :> "D") @@
    ("e" :> "E") @@ ("f" :> "F") @@ ("g" :> "G") @@ ("h" :> "H") @@
    ("i" :> "I") @@ ("j" :> "J") @@ ("k" :> "K") @@ ("l" :> "L") @@
    ("m" :> "M") @@ ("n" :> "N") @@ ("o" :> "O") @@ ("p" :> "P") @@
    ("q" :> "Q") @@ ("r" :> "R") @@ ("s" :> "S") @@ ("t" :> "T") @@
    ("u" :> "U") @@ ("v" :> "V") @@ ("w" :> "W") @@ ("x" :> "X") @@
    ("y" :> "Y") @@ ("z" :> "Z")

LowerCase == DOMAIN LowerToUpper
UpperCase == {LowerToUpper[c] : c \in LowerCase}
Digits == {"0", "1", "2", "3", "4", "5", "6", "7", "8", "9"}

\* the white space String.prototype.trim removes (of the characters modelled)
WhiteSpace == {" ", "\t", "\n"}

\* String.prototype.toUpperCase
RECURSIVE ToUpperCase(_)
ToUpperCase(s) ==
    IF s = "" THEN ""
    ELSE LET ch == CharAt(s, 0)
         IN  (IF ch \in LowerCase THEN LowerToUpper[ch] ELSE ch)
                 \o ToUpperCase(Tail(s))

\* String.prototype.trimStart and trimEnd
RECURSIVE TrimStart(_)
TrimStart(s) ==
    IF s # "" /\ CharAt(s, 0) \in WhiteSpace THEN TrimStart(Tail(s)) ELSE s

RECURSIVE TrimEnd(_)
TrimEnd(s) ==
    IF s # "" /\ CharAt(s, Len(s) - 1) \in WhiteSpace
    THEN TrimEnd(SubSeq(s, 1, Len(s) - 1))
    ELSE s

\* String.prototype.trim
Trim(s) == TrimEnd(TrimStart(s))

\* String.prototype.split(' '): the pieces between single spaces, empty ones kept
RECURSIVE SplitSpace(_)
SplitSpace(s) ==
    LET i == IndexOf(s, " ", 0)
    IN  IF i = -1 THEN <<s>>
        ELSE <<Substring(s, 0, i)>> \o SplitSpace(SubstringFrom(s, i + 1))

\* .filter((word) => word.length > 0)
NonEmpty(words) == SelectSeq(words, LAMBDA w : Len(w) > 0)

\* Array.prototype.join(' ')
RECURSIVE JoinSpace(_)
JoinSpace(words) ==
    IF words = <<>> THEN ""
    ELSE IF Len(words) = 1 THEN words[1]
    ELSE words[1] \o " " \o JoinSpace(Tail(words))

DigitValue ==
    ("0" :> 0) @@ ("1" :> 1) @@ ("2" :> 2) @@ ("3" :> 3) @@ ("4" :> 4) @@
    ("5" :> 5) @@ ("6" :> 6) @@ ("7" :> 7) @@ ("8" :> 8) @@ ("9" :> 9)

DigitChar == <<"0", "1", "2", "3", "4", "5", "6", "7", "8", "9">>

\* the value of a string of digits
RECURSIVE DigitsValue(_, _)
DigitsValue(s, acc) ==
    IF s = "" THEN acc
    ELSE DigitsValue(Tail(s), 10 * acc + DigitValue[CharAt(s, 0)])

\* parseInt(s, 10): leading white space is skipped, one sign is read, then the
\* longest run of digits; NaN when that run is empty
NaN == [nan |-> TRUE, n |-> 0]
Num(n) == [nan |-> FALSE, n |-> n]

ParseInt(s) ==
    LET t == TrimStart(s)
        signed == t # "" /\ CharAt(t, 0) \in {"+", "-"}
        first == IF signed THEN 1 ELSE 0
        stops == {i \in first..(Len(t) - 1) : CharAt(t, i) \notin Digits}
        last == IF stops = {} THEN Len(t) ELSE Min(stops)
        v == DigitsValue(Substring(t, first, last), 0)
    IN  IF last = first THEN NaN
        ELSE Num(IF signed /\ CharAt(t, 0) = "-" THEN -v ELSE v)

\* String(n) for an integer n
RECURSIVE NatToString(_)
NatToString(n) ==
    IF n < 10 THEN DigitChar[n + 1]
    ELSE NatToString(n \div 10) \o DigitChar[(n % 10) + 1]

NumberToString(v) ==
    IF v.nan THEN "NaN"
    ELSE IF v.n < 0 THEN "-" \o NatToString(-v.n) ELSE NatToString(v.n)

(***************************************************************************)
(* The parser                                                              *)
(***************************************************************************)

SUPPORTED_CURRENCIES == {"NGN", "USD", "GBP", "GHS"}

STATUS_CODES ==
    [AM01 |-> "Amount must be a positive integer",
     CU01 |-> "Account currency mismatch",
     CU02 |-> "Unsupported currency. Only NGN, USD, GBP, and GHS are supported",
     AC01 |-> "Insufficient funds in debit account",
     AC02 |-> "Debit and credit accounts cannot be the same",
     AC03 |-> "Account not found",
     AC04 |-> "Invalid account ID format",
     DT01 |-> "Invalid date format",
     SY01 |-> "Missing required keyword",
     SY02 |-> "Invalid keyword order",
     SY03 |-> "Malformed instruction: unable to parse keywords",
     AP00 |-> "Transaction executed successfully",
     AP02 |-> "Transaction scheduled for future execution"]

\* a JavaScript value given as the instruction
JsString(s) == [type |-> "string", str |-> s]
JsUndefined == [type |-> "undefined", str |-> ""]

Failure(code, reason) == [error |-> TRUE, statusCode |-> code, statusReason |-> reason]
Throw(message) == [thrown |-> TRUE, message |-> message]
Return(value) == [thrown |-> FALSE, value |-> value]

Draft(type, amount, currency, debitAccount, creditAccount, executeBy) ==
    [error |-> FALSE, type |-> type, amount |-> amount, currency |-> currency,
     debitAccount |-> debitAccount, creditAccount |-> creditAccount,
     executeBy |-> executeBy]

\* instruction.trim().split(' ').filter((word) => word.length > 0).join(' ')
Normalize(text) == JoinSpace(NonEmpty(SplitSpace(Trim(text))))

\* Find keyword positions (lines 90-98): FROM and FOR are searched from the
\* start of the text, the others from the keyword found before them
debitKeywordPositions(upper) ==
    LET debitPos == IndexOf(upper, "DEBIT", 0)
        fromPos == IndexOf(upper, "FROM", 0)
        accountPos1 == IndexOf(upper, "ACCOUNT", fromPos)
        forPos == IndexOf(upper, "FOR", 0)
        creditPos == IndexOf(upper, "CREDIT", forPos)
        toPos == IndexOf(upper, "TO", creditPos)
        accountPos2 == IndexOf(upper, "ACCOUNT", toPos)
        onPos == IndexOf(upper, "ON", accountPos2)
    IN  [debitPos |-> debitPos, fromPos |-> fromPos, accountPos1 |-> accountPos1,
         forPos |-> forPos, creditPos |-> creditPos, toPos |-> toPos,
         accountPos2 |-> accountPos2, onPos |-> onPos]

\* Find keyword positions (lines 182-190): TO and FOR are searched from the
\* start of the text, the others from the keyword found before them
creditKeywordPositions(upper) ==
    LET creditPos == IndexOf(upper, "CREDIT", 0)
        toPos == IndexOf(upper, "TO", 0)
        accountPos1 == IndexOf(upper, "ACCOUNT", toPos)
        forPos == IndexOf(upper, "FOR", 0)
        debitPos == IndexOf(upper, "DEBIT", forPos)
        fromPos == IndexOf(upper, "FROM", debitPos)
        accountPos2 == IndexOf(upper, "ACCOUNT", fromPos)
        onPos == IndexOf(upper, "ON", accountPos2)
    IN  [creditPos |-> creditPos, toPos |-> toPos, accountPos1 |-> accountPos1,
         forPos |-> forPos, debitPos |-> debitPos, fromPos |-> fromPos,
         accountPos2 |-> accountPos2, onPos |-> onPos]

\* DEBIT [amount] [currency] FROM ACCOUNT [id] FOR CREDIT TO ACCOUNT [id] [ON [date]]
parseDebitInstruction(instruction) ==
    LET upper == ToUpperCase(instruction)
        debitPos == IndexOf(upper, "DEBIT", 0)
        fromPos == IndexOf(upper, "FROM", 0)
        accountPos1 == IndexOf(upper, "ACCOUNT", fromPos)
        forPos == IndexOf(upper, "FOR", 0)
        creditPos == IndexOf(upper, "CREDIT", forPos)
        toPos == IndexOf(upper, "TO", creditPos)
        accountPos2 == IndexOf(upper, "ACCOUNT", toPos)
        onPos == IndexOf(upper, "ON", accountPos2)
        amountCurrencyPart == Trim(Substring(instruction, debitPos + 5, fromPos))
        amountCurrencyTokens == NonEmpty(SplitSpace(amountCurrencyPart))
        debitAccount == Trim(Substring(instruction, accountPos1 + 7, forPos))
        creditAccount ==
            IF onPos > accountPos2
            THEN Trim(Substring(instruction, accountPos2 + 7, onPos))
            ELSE Trim(SubstringFrom(instruction, accountPos2 + 7))
        executeBy ==
            IF onPos > accountPos2
            THEN Some(Trim(SubstringFrom(instruction, onPos + 2)))
            ELSE Null
    IN  IF debitPos = -1 THEN Throw("Missing required keyword: DEBIT")
        ELSE IF fromPos = -1 THEN Throw("Missing required keyword: FROM")
        ELSE IF accountPos1 = -1 THEN Throw("Missing required keyword: ACCOUNT after FROM")
        ELSE IF forPos = -1 THEN Throw("Missing required keyword: FOR")
        ELSE IF creditPos = -1 THEN Throw("Missing required keyword: CREDIT")
        ELSE IF toPos = -1 THEN Throw("Missing required keyword: TO")
        ELSE IF accountPos2 = -1 THEN Throw("Missing required keyword: ACCOUNT after TO")
        ELSE IF ~(/\ debitPos < fromPos
                  /\ fromPos < accountPos1
                  /\ accountPos1 < forPos
                  /\ forPos < creditPos
                  /\ creditPos < toPos
                  /\ toPos < accountPos2)
             THEN Throw(STATUS_CODES.SY02)
        ELSE IF Len(amountCurrencyTokens) # 2
             THEN Throw("Invalid format: expected amount and currency after DEBIT")
        ELSE Return(Draft("DEBIT", amountCurrencyTokens[1],
                          ToUpperCase(amountCurrencyTokens[2]),
                          debitAccount, creditAccount, executeBy))

\* CREDIT [amount] [currency] TO ACCOUNT [id] FOR DEBIT FROM ACCOUNT [id] [ON [date]]
parseCreditInstruction(instruction) ==
    LET upper == ToUpperCase(instruction)
        creditPos == IndexOf(upper, "CREDIT", 0)
        toPos == IndexOf(upper, "TO", 0)
        accountPos1 == IndexOf(upper, "ACCOUNT", toPos)
        forPos == IndexOf(upper, "FOR", 0)
        debitPos == IndexOf(upper, "DEBIT", forPos)
        fromPos == IndexOf(upper, "FROM", debitPos)
        accountPos2 == IndexOf(upper, "ACCOUNT", fromPos)
        onPos == IndexOf(upper, "ON", accountPos2)
        amountCurrencyPart == Trim(Substring(instruction, creditPos + 6, toPos))
        amountCurrencyTokens == NonEmpty(SplitSpace(amountCurrencyPart))
        creditAccount == Trim(Substring(instruction, accountPos1 + 7, forPos))
        debitAccount ==
            IF onPos > accountPos2
            THEN Trim(Substring(instruction, accountPos2 + 7, onPos))
            ELSE Trim(SubstringFrom(instruction, accountPos2 + 7))
        executeBy ==
            IF onPos > accountPos2
            THEN Some(Trim(SubstringFrom(instruction, onPos + 2)))
            ELSE Null
    IN  IF creditPos = -1 THEN Throw("Missing required keyword: CREDIT")
        ELSE IF toPos = -1 THEN Throw("Missing required keyword: TO")
        ELSE IF accountPos1 = -1 THEN Throw("Missing required keyword: ACCOUNT after TO")
        ELSE IF forPos = -1 THEN Throw("Missing required keyword: FOR")
        ELSE IF debitPos = -1 THEN Throw("Missing required keyword: DEBIT")
        ELSE IF fromPos = -1 THEN Throw("Missing required keyword: FROM")
        ELSE IF accountPos2 = -1 THEN Throw("Missing required keyword: ACCOUNT after FROM")
        ELSE IF ~(/\ creditPos < toPos
                  /\ toPos < accountPos1
                  /\ accountPos1 < forPos
                  /\ forPos < debitPos
                  /\ debitPos < fromPos
                  /\ fromPos < accountPos2)
             THEN Throw(STATUS_CODES.SY02)
        ELSE IF Len(amountCurrencyTokens) # 2
             THEN Throw("Invalid format: expected amount and currency after CREDIT")
        ELSE Return(Draft("CREDIT", amountCurrencyTokens[1],
                          ToUpperCase(amountCurrencyTokens[2]),
                          debitAccount, creditAccount, executeBy))

\* the try/catch of parseInstruction: whatever a parser throws becomes SY03
CatchParse(outcome) ==
    IF outcome.thrown
    THEN Failure("SY03", IF outcome.message # "" THEN outcome.message
                          ELSE STATUS_CODES.SY03)
    ELSE outcome.value

parseInstruction(instruction) ==
    IF instruction.type # "string" \/ instruction.str = ""
    THEN Failure("SY03", STATUS_CODES.SY03)
    ELSE LET normalized == Normalize(instruction.str)
             upper == ToUpperCase(normalized)
         IN  IF IndexOf(upper, "DEBIT", 0) = 0
             THEN CatchParse(parseDebitInstruction(normalized))
             ELSE IF IndexOf(upper, "CREDIT", 0) = 0
             THEN CatchParse(parseCreditInstruction(normalized))
             ELSE Failure("SY01", "Missing required keyword: DEBIT or CREDIT")

(***************************************************************************)
(* Dates.  A time value is [day, ms]: whole days since 1970-01-01 UTC and   *)
(* milliseconds within that day.                                            *)
(***************************************************************************)

Time(day, ms) == [day |-> day, ms |-> ms]

\* MakeDay / Date.UTC(year, month, day) for month in 1..12: the day number of
\* the first of the month plus day - 1, so a day past the month's end rolls over
DateUTC(year, month, day) ==
    LET y == IF month <= 2 THEN year - 1 ELSE year
        era == y \div 400
        yoe == y - era * 400
        mp == IF month > 2 THEN month - 3 ELSE month + 9
        doy == (153 * mp + 2) \div 5
        doe == yoe * 365 + yoe \div 4 - yoe \div 100 + doy
    IN  era * 146097 + doe - 719468 + (day - 1)

\* getUTCFullYear, getUTCMonth (+ 1), getUTCDate of a time value
UTCFields(t) ==
    LET z == t.day + 719468
        era == z \div 146097
        doe == z - era * 146097
        yoe == (doe - doe \div 1460 + doe \div 36524 - doe \div 146096) \div 365
        doy == doe - (365 * yoe + yoe \div 4 - yoe \div 100)
        mp == (5 * doy + 2) \div 153
        d == doy - (153 * mp + 2) \div 5 + 1
        m == IF mp < 10 THEN mp + 3 ELSE mp - 9
    IN  [year |-> IF m <= 2 THEN yoe + era * 400 + 1 ELSE yoe + era * 400,
         month |-> m, date |-> d]

AllDigits(s) == \A i \in 0..(Len(s) - 1) : CharAt(s, i) \in Digits

\* new Date(`${dateStr}T00:00:00.000Z`) for dateStr of the form dddd-dd-dd, as
\* Node's engine parses it: the month must be in 1..12 and the day in 1..31,
\* whatever the month, and the day then rolls over into the next month;
\* anything else is an Invalid Date (NaN)
NewDate(year, month, day) ==
    LET y == DigitsValue(year, 0)
        m == DigitsValue(month, 0)
        d == DigitsValue(day, 0)
    IN  IF m \in 1..12 /\ d \in 1..31
        THEN [nan |-> FALSE, t |-> Time(DateUTC(y, m, d), 0)]
        ELSE [nan |-> TRUE, t |-> Time(0, 0)]

validateDate(dateStr) ==
    LET year == Substring(dateStr, 0, 4)
        month == Substring(dateStr, 5, 7)
        day == Substring(dateStr, 8, 10)
        format == Failure("DT01", "Invalid date format. Expected YYYY-MM-DD")
    IN  IF dateStr = "" \/ Len(dateStr) # 10 THEN format
        ELSE IF CharAt(dateStr, 4) # "-" \/ CharAt(dateStr, 7) # "-" THEN format
        ELSE IF ~AllDigits(year) THEN format
        ELSE IF ~AllDigits(month) THEN format
        ELSE IF ~AllDigits(day) THEN format
        ELSE IF NewDate(year, month, day).nan THEN Failure("DT01", "Invalid date")
        ELSE [error |-> FALSE, date |-> NewDate(year, month, day).t]

\* targetDateOnly <= nowDateOnly
TimeLeq(a, b) == a.day < b.day \/ (a.day = b.day /\ a.ms <= b.ms)

\* shouldExecuteImmediately with < for <=: a transfer dated today is deferred
shouldExecuteImmediatelyStrict(executeBy, clock) ==
    IF executeBy = Null \/ executeBy = Some("") THEN TRUE
    ELSE LET dateValidation == validateDate(executeBy[1])
         IN  IF dateValidation.error THEN FALSE
             ELSE LET n == UTCFields(clock)
                      t == UTCFields(dateValidation.date)
                      nowDateOnly == Time(DateUTC(n.year, n.month, n.date), 0)
                      targetDateOnly == Time(DateUTC(t.year, t.month, t.date), 0)
                  IN  TimeLeq(targetDateOnly, nowDateOnly)
                          /\ targetDateOnly # nowDateOnly

\* executeBy is nullable; clock is the value of new Date()
shouldExecuteImmediately(executeBy, clock) ==
    IF executeBy = Null \/ executeBy = Some("") THEN TRUE
    ELSE LET dateValidation == validateDate(executeBy[1])
         IN  IF dateValidation.error THEN FALSE
             ELSE LET n == UTCFields(clock)
                      t == UTCFields(dateValidation.date)
                      nowDateOnly == Time(DateUTC(n.year, n.month, n.date), 0)
                      targetDateOnly == Time(DateUTC(t.year, t.month, t.date), 0)
                  IN  TimeLeq(targetDateOnly, nowDateOnly)

(***************************************************************************)
(* The validation chain                                                    *)
(***************************************************************************)

\* accounts.find((acc) => acc.id === id): the index of the first match, 0 if none
Find(accs, id) ==
    LET hits == {i \in 1..Len(accs) : accs[i].id = id}
    IN  IF hits = {} THEN 0 ELSE Min(hits)

isValidAccountId(id) ==
    /\ id # ""
    /\ \A i \in 0..(Len(id) - 1) :
          \/ CharAt(id, i) \in LowerCase
          \/ CharAt(id, i) \in UpperCase
          \/ CharAt(id, i) \in Digits
          \/ CharAt(id, i) \in {"-", ".", "@"}

Ok == [error |-> FALSE]

\* Validate amount (lines 271-287)
checkAmount(parsed) ==
    LET amountNum == ParseInt(parsed.amount)
    IN  IF \/ parsed.amount = ""
           \/ IndexOf(parsed.amount, ".", 0) # -1
           \/ IndexOf(parsed.amount, "-", 0) # -1
        THEN Failure("AM01", STATUS_CODES.AM01)
        ELSE IF \/ amountNum.nan
                \/ amountNum.n <= 0
                \/ parsed.amount # NumberToString(amountNum)
        THEN Failure("AM01", STATUS_CODES.AM01)
        ELSE Ok

\* Validate currency (lines 289-296)
checkCurrency(parsed) ==
    IF parsed.currency \notin SUPPORTED_CURRENCIES
    THEN Failure("CU02", STATUS_CODES.CU02)
    ELSE Ok

\* Validate account ID format (lines 298-329)
checkAccountIds(parsed) ==
    IF ~isValidAccountId(parsed.debitAccount)
    THEN Failure("AC04", "Invalid account ID format for debit account")
    ELSE IF ~isValidAccountId(parsed.creditAccount)
    THEN Failure("AC04", "Invalid account ID format for credit account")
    ELSE Ok

\* Validate accounts are different (lines 331-338)
checkDistinct(parsed) ==
    IF parsed.debitAccount = parsed.creditAccount
    THEN Failure("AC02", STATUS_CODES.AC02)
    ELSE Ok

\* Find accounts (lines 340-358)
checkExist(parsed, accs) ==
    IF Find(accs, parsed.debitAccount) = 0
    THEN Failure("AC03", "Account not found: " \o parsed.debitAccount)
    ELSE IF Find(accs, parsed.creditAccount) = 0
    THEN Failure("AC03", "Account not found: " \o parsed.creditAccount)
    ELSE Ok

\* Validate currencies match (lines 360-375)
checkCurrencyMatch(parsed, accs) ==
    LET debitAcc == accs[Find(accs, parsed.debitAccount)]
        creditAcc == accs[Find(accs, parsed.creditAccount)]
    IN  IF ToUpperCase(debitAcc.currency) # parsed.currency
        THEN Failure("CU01", STATUS_CODES.CU01)
        ELSE IF ToUpperCase(creditAcc.currency) # parsed.currency
        THEN Failure("CU01", STATUS_CODES.CU01)
        ELSE Ok

\* checkFunds without the comparison of the balance with the amount
checkFundsAlways(parsed, accs) == Ok

\* the funds rule reading the balance of the credit account
checkFundsOfCredit(parsed, accs) ==
    LET creditAcc == accs[Find(accs, parsed.creditAccount)]
        amountNum == ParseInt(parsed.amount)
    IN  IF creditAcc.balance < amountNum.n
        THEN Failure("AC01",
                 "Insufficient funds in account " \o parsed.debitAccount
                 \o ": has " \o NumberToString(Num(creditAcc.balance)) \o " "
                 \o parsed.currency \o ", needs " \o NumberToString(amountNum)
                 \o " " \o parsed.currency)
        ELSE Ok

\* Validate sufficient funds (lines 377-384)
checkFunds(parsed, accs) ==
    LET debitAcc == accs[Find(accs, parsed.debitAccount)]
        amountNum == ParseInt(parsed.amount)
    IN  IF debitAcc.balance < amountNum.n
        THEN Failure("AC01",
                 "Insufficient funds in account " \o parsed.debitAccount
                 \o ": has " \o NumberToString(Num(debitAcc.balance)) \o " "
                 \o parsed.currency \o ", needs " \o NumberToString(amountNum)
                 \o " " \o parsed.currency)
        ELSE Ok

\* Validate date format if present (lines 386-392)
checkDate(parsed) ==
    IF parsed.executeBy # Null /\ parsed.executeBy # Some("")
    THEN IF validateDate(parsed.executeBy[1]).error
         THEN validateDate(parsed.executeBy[1])
         ELSE Ok
    ELSE Ok

\* validateInstruction with the currency rule ahead of the amount rule
validateInstructionCurrencyFirst(parsed, accs) ==
    IF checkCurrency(parsed).error THEN checkCurrency(parsed)
    ELSE IF checkAmount(parsed).error THEN checkAmount(parsed)
    ELSE IF checkAccountIds(parsed).error THEN checkAccountIds(parsed)
    ELSE IF checkDistinct(parsed).error THEN checkDistinct(parsed)
    ELSE IF checkExist(parsed, accs).error THEN checkExist(parsed, accs)
    ELSE IF checkCurrencyMatch(parsed, accs).error THEN checkCurrencyMatch(parsed, accs)
    ELSE IF checkFunds(parsed, accs).error THEN checkFunds(parsed, accs)
    ELSE IF checkDate(parsed).error THEN checkDate(parsed)
    ELSE Ok

validateInstruction(parsed, accs) ==
    IF checkAmount(parsed).error THEN checkAmount(parsed)
    ELSE IF checkCurrency(parsed).error THEN checkCurrency(parsed)
    ELSE IF checkAccountIds(parsed).error THEN checkAccountIds(parsed)
    ELSE IF checkDistinct(parsed).error THEN checkDistinct(parsed)
    ELSE IF checkExist(parsed, accs).error THEN checkExist(parsed, accs)
    ELSE IF checkCurrencyMatch(parsed, accs).error THEN checkCurrencyMatch(parsed, accs)
    ELSE IF checkFunds(parsed, accs).error THEN checkFunds(parsed, accs)
    ELSE IF checkDate(parsed).error THEN checkDate(parsed)
    ELSE Ok

(***************************************************************************)
(* The executor and the service                                            *)
(***************************************************************************)

Snapshot(id, balance, balance_before, currency) ==
    [id |-> id, balance |-> balance, balance_before |-> balance_before,
     currency |-> currency]

\* executeTransaction with the credit account debited too (-= for +=)
executeTransactionDebitsBoth(parsed, accs) ==
    LET amountNum == ParseInt(parsed.amount).n
        d == Find(accs, parsed.debitAccount)
        c == Find(accs, parsed.creditAccount)
        debited == [accs EXCEPT ![d].balance = @ - amountNum]
        credited == [debited EXCEPT ![c].balance = @ - amountNum]
    IN  [accounts |-> credited,
         debitAcc |-> Snapshot(credited[d].id, credited[d].balance,
                               accs[d].balance, ToUpperCase(credited[d].currency)),
         creditAcc |-> Snapshot(credited[c].id, credited[c].balance,
                                accs[c].balance, ToUpperCase(credited[c].currency))]

\* executeTransaction without the update of the credit account
executeTransactionNoCredit(parsed, accs) ==
    LET amountNum == ParseInt(parsed.amount).n
        d == Find(accs, parsed.debitAccount)
        c == Find(accs, parsed.creditAccount)
        debited == [accs EXCEPT ![d].balance = @ - amountNum]
    IN  [accounts |-> debited,
         debitAcc |-> Snapshot(debited[d].id, debited[d].balance,
                               accs[d].balance, ToUpperCase(debited[d].currency)),
         creditAcc |-> Snapshot(debited[c].id, debited[c].balance,
                                accs[c].balance, ToUpperCase(debited[c].currency))]

\* executeTransaction with balance_before read after the update
executeTransactionBeforeRead(parsed, accs) ==
    LET amountNum == ParseInt(parsed.amount).n
        d == Find(accs, parsed.debitAccount)
        c == Find(accs, parsed.creditAccount)
        debited == [accs EXCEPT ![d].balance = @ - amountNum]
        credited == [debited EXCEPT ![c].balance = @ + amountNum]
    IN  [accounts |-> credited,
         debitAcc |-> Snapshot(credited[d].id, credited[d].balance,
                               credited[d].balance, ToUpperCase(credited[d].currency)),
         creditAcc |-> Snapshot(credited[c].id, credited[c].balance,
                                credited[c].balance, ToUpperCase(credited[c].currency))]

\* executeTransaction writing the upper-cased currency of the snapshots back
\* into the two account objects
executeTransactionStoresCurrency(parsed, accs) ==
    LET amountNum == ParseInt(parsed.amount).n
        d == Find(accs, parsed.debitAccount)
        c == Find(accs, parsed.creditAccount)
        debitBalanceBefore == accs[d].balance
        creditBalanceBefore == accs[c].balance
        debited == [accs EXCEPT ![d].balance = @ - amountNum,
                                ![d].currency = ToUpperCase(@)]
        credited == [debited EXCEPT ![c].balance = @ + amountNum,
                                    ![c].currency = ToUpperCase(@)]
    IN  [accounts |-> credited,
         debitAcc |-> Snapshot(credited[d].id, credited[d].balance,
                               debitBalanceBefore, credited[d].currency),
         creditAcc |-> Snapshot(credited[c].id, credited[c].balance,
                                creditBalanceBefore, credited[c].currency)]

\* executeTransaction: the two account objects are updated in place; the
\* snapshots are taken after the update
executeTransaction(parsed, accs) ==
    LET amountNum == ParseInt(parsed.amount).n
        d == Find(accs, parsed.debitAccount)
        c == Find(accs, parsed.creditAccount)
        debitBalanceBefore == accs[d].balance
        creditBalanceBefore == accs[c].balance
        debited == [accs EXCEPT ![d].balance = @ - amountNum]
        credited == [debited EXCEPT ![c].balance = @ + amountNum]
    IN  [accounts |-> credited,
         debitAcc |-> Snapshot(credited[d].id, credited[d].balance,
                               debitBalanceBefore, ToUpperCase(credited[d].currency)),
         creditAcc |-> Snapshot(credited[c].id, credited[c].balance,
                                creditBalanceBefore, ToUpperCase(credited[c].currency))]

\* unchangedSnapshots without the test on acc.id: a snapshot of every account
unchangedSnapshotsOfAll(parsed, accs) ==
    [i \in 1..Len(accs) |->
        Snapshot(accs[i].id, accs[i].balance, accs[i].balance,
                 ToUpperCase(accs[i].currency))]

\* unchangedSnapshots with the currency as stored (no toUpperCase)
unchangedSnapshotsStoredCase(parsed, accs) ==
    LET involved == SelectSeq(accs, LAMBDA acc :
                        acc.id = parsed.debitAccount \/ acc.id = parsed.creditAccount)
    IN  [i \in 1..Len(involved) |->
            Snapshot(involved[i].id, involved[i].balance, involved[i].balance,
                     involved[i].currency)]

\* the accounts.forEach of the failed and pending branches
unchangedSnapshots(parsed, accs) ==
    LET involved == SelectSeq(accs, LAMBDA acc :
                        acc.id = parsed.debitAccount \/ acc.id = parsed.creditAccount)
    IN  [i \in 1..Len(involved) |->
            Snapshot(involved[i].id, involved[i].balance, involved[i].balance,
                     ToUpperCase(involved[i].currency))]

\* executedSnapshots in the order debit, credit instead of the accounts' order
executedSnapshotsDebitFirst(parsed, result) ==
    <<result.debitAcc, result.creditAcc>>

\* the accounts.forEach of the successful branch, over the updated accounts
executedSnapshots(parsed, result) ==
    LET involved == SelectSeq(result.accounts, LAMBDA acc :
                        acc.id = parsed.debitAccount \/ acc.id = parsed.creditAccount)
    IN  [i \in 1..Len(involved) |->
            IF involved[i].id = parsed.debitAccount
            THEN result.debitAcc
            ELSE result.creditAcc]

\* parseInt(parsed.amount, 10) || null
amountOrNull(amount) ==
    IF ParseInt(amount).nan \/ ParseInt(amount).n = 0
    THEN Null
    ELSE Some(ParseInt(amount).n)

Data(type, amount, currency, debit, credit, executeBy, status, reason, code, accs) ==
    [type |-> type, amount |-> amount, currency |-> currency,
     debit_account |-> debit, credit_account |-> credit, execute_by |-> executeBy,
     status |-> status, status_reason |-> reason, status_code |-> code,
     accounts |-> accs]

Result(httpStatus, data) == [httpStatus |-> httpStatus, data |-> data]

\* parseFailed with the transfer type reported instead of null
parseFailedWithType(parsed) ==
    Result(400, Data(Some("DEBIT"), Null, Null, Null, Null, Null, "failed",
                     parsed.statusReason, parsed.statusCode, <<>>))

\* Handle parsing errors (lines 528-544)
parseFailed(parsed) ==
    Result(400, Data(Null, Null, Null, Null, Null, Null, "failed",
                     parsed.statusReason, parsed.statusCode, <<>>))

\* validationFailed without the snapshots of the resolvable accounts
validationFailedNoSnapshots(parsed, validation, accs) ==
    Result(400, Data(Some(parsed.type), amountOrNull(parsed.amount),
                     Some(parsed.currency), Some(parsed.debitAccount),
                     Some(parsed.creditAccount), parsed.executeBy, "failed",
                     validation.statusReason, validation.statusCode, <<>>))

\* validation.error (lines 549-583)
validationFailed(parsed, validation, accs) ==
    Result(400, Data(Some(parsed.type), amountOrNull(parsed.amount),
                     Some(parsed.currency), Some(parsed.debitAccount),
                     Some(parsed.creditAccount), parsed.executeBy, "failed",
                     validation.statusReason, validation.statusCode,
                     unchangedSnapshots(parsed, accs)))

\* pendingResult with the status code of an executed transfer
pendingResultAP00(parsed, accs) ==
    Result(200, Data(Some(parsed.type), Some(ParseInt(parsed.amount).n),
                     Some(parsed.currency), Some(parsed.debitAccount),
                     Some(parsed.creditAccount), parsed.executeBy, "pending",
                     STATUS_CODES.AP02, "AP00", unchangedSnapshots(parsed, accs)))

\* Pending transaction (lines 588-620)
pendingResult(parsed, accs) ==
    Result(200, Data(Some(parsed.type), Some(ParseInt(parsed.amount).n),
                     Some(parsed.currency), Some(parsed.debitAccount),
                     Some(parsed.creditAccount), parsed.executeBy, "pending",
                     STATUS_CODES.AP02, "AP02", unchangedSnapshots(parsed, accs)))

\* Execute transaction (lines 622-660)
successfulResult(parsed, result) ==
    Result(200, Data(Some(parsed.type), Some(ParseInt(parsed.amount).n),
                     Some(parsed.currency), Some(parsed.debitAccount),
                     Some(parsed.creditAccount), parsed.executeBy, "successful",
                     STATUS_CODES.AP00, "AP00", executedSnapshots(parsed, result)))

\* paymentInstructionsService that refuses a transfer dated after today with
\* DT01 instead of deferring it
paymentInstructionsServiceNoDeferral(accs, instruction, clock) ==
    LET parsed == parseInstruction(instruction)
    IN  IF parsed.error
        THEN [accounts |-> accs, response |-> parseFailed(parsed)]
        ELSE LET validation == validateInstruction(parsed, accs)
             IN  IF validation.error
                 THEN [accounts |-> accs,
                       response |-> validationFailed(parsed, validation, accs)]
                 ELSE IF ~shouldExecuteImmediately(parsed.executeBy, clock)
                 THEN [accounts |-> accs,
                       response |-> validationFailed(parsed,
                                        Failure("DT01", STATUS_CODES.DT01), accs)]
                 ELSE LET result == executeTransaction(parsed, accs)
                      IN  [accounts |-> result.accounts,
                           response |-> successfulResult(parsed, result)]

\* paymentInstructionsService({accounts, instruction}) when the clock reads
\* `clock`: the accounts as the call leaves them, and the value returned
paymentInstructionsService(accs, instruction, clock) ==
    LET parsed == parseInstruction(instruction)
    IN  IF parsed.error
        THEN [accounts |-> accs, response |-> parseFailed(parsed)]
        ELSE LET validation == validateInstruction(parsed, accs)
             IN  IF validation.error
                 THEN [accounts |-> accs,
                       response |-> validationFailed(parsed, validation, accs)]
                 ELSE IF ~shouldExecuteImmediately(parsed.executeBy, clock)
                 THEN [accounts |-> accs, response |-> pendingResult(parsed, accs)]
                 ELSE LET result == executeTransaction(parsed, accs)
                      IN  [accounts |-> result.accounts,
                           response |-> successfulResult(parsed, result)]

(***************************************************************************)
(* Requests                                                                *)
(***************************************************************************)

Account(id, balance, currency) == [id |-> id, balance |-> balance, currency |-> currency]

\* the two grammars (lines 84-85 and 176-177), for a transfer
\* p = [amount, currency, debit, credit, date]
DebitForm(p) ==
    "DEBIT " \o p.amount \o " " \o p.currency \o " FROM ACCOUNT " \o p.debit
        \o " FOR CREDIT TO ACCOUNT " \o p.credit
        \o (IF p.date = Null THEN "" ELSE " ON " \o p.date[1])

CreditForm(p) ==
    "CREDIT " \o p.amount \o " " \o p.currency \o " TO ACCOUNT " \o p.credit
        \o " FOR DEBIT FROM ACCOUNT " \o p.debit
        \o (IF p.date = Null THEN "" ELSE " ON " \o p.date[1])

\* bounds of the model
MaxCalls == 3
MaxDays == 1

\* the clock starts at 2025-03-01T00:00:00.000Z
StartDay == DateUTC(2025, 3, 1)
LastMs == 86400000 - 1

\* the account lists a caller supplies: in the order a, b; in another order,
\* with a lower-case currency and a third account in another currency; with a
\* repeated id; with ids that contain the letters of a keyword
InitialAccounts ==
    {<<Account("a", 500, "USD"), Account("b", 200, "USD")>>,
     <<Account("b", 200, "usd"), Account("a", 100, "USD"), Account("c", 300, "GBP")>>,
     <<Account("a", 300, "USD"), Account("a", 50, "USD"), Account("b", 0, "USD")>>,
     <<Account("forest", 500, "USD"), Account("b", 200, "USD"),
       Account("bond", 100, "USD")>>}

\* transfers that break several validation rules at once, or none
RuleTransfers ==
    [amount : {"100", "0", "900"},
     currency : {"USD", "EUR", "GBP"},
     debit : {"a", "x_y"},
     credit : {"b", "a", "x_y", "zed"},
     date : {Null, Some("2025-13-01")}]

\* amounts that are not the decimal form of a positive integer
AmountTransfers ==
    [amount : {"0100", "100.0", "-5", "12x", "abc", "+5", "1to", "200"},
     currency : {"USD", "TOP", "FORINT"},
     debit : {"a"},
     credit : {"b", "c"},
     date : {Null}]

\* identifiers and currencies in either letter case, or containing a keyword
TokenTransfers ==
    [amount : {"100"},
     currency : {"USD", "usd"},
     debit : {"a", "b", "A", "forest", "bond"},
     credit : {"a", "b", "forest", "bond"},
     date : {Null, Some("2025-03-01")}]

\* dates before, on and after the days of the clock, and ill-formed ones
DateTransfers ==
    [amount : {"100"},
     currency : {"USD"},
     debit : {"a", "b"},
     credit : {"b", "a"},
     date : {Some("2024-01-15"), Some("2025-03-01"), Some("2025-03-02"),
             Some("2025-03-03"), Some("2026-12-31"), Some("2025-02-30"),
             Some("2025-3-01"), Some("2025/03/01"), Some("2025-00-10"),
             Some("2025-03-32"), Some("20a5-03-01")}]

Transfers == RuleTransfers \cup AmountTransfers \cup TokenTransfers \cup DateTransfers

\* instructions in neither grammar: a keyword missing, keywords out of order,
\* a wrong number of tokens, irregular spacing, no text
Malformed ==
    {"SEND 100 USD TO ACCOUNT b",
     "DEBIT 100 USD ACCOUNT a FOR CREDIT TO ACCOUNT b",
     "DEBIT 100 USD FROM a FOR CREDIT TO b",
     "DEBIT 100 USD FROM ACCOUNT a CREDIT TO ACCOUNT b",
     "DEBIT 100 USD FROM ACCOUNT a FOR TO ACCOUNT b",
     "DEBIT 100 USD FROM ACCOUNT a FOR CREDIT ACCOUNT b",
     "DEBIT 100 USD FROM ACCOUNT a FOR CREDIT TO b",
     "CREDIT 100 USD ACCOUNT b FOR DEBIT FROM ACCOUNT a",
     "CREDIT 100 USD TO b FOR DEBIT FROM a",
     "CREDIT 100 USD TO ACCOUNT b DEBIT FROM ACCOUNT a",
     "CREDIT 100 USD TO ACCOUNT b FOR FROM ACCOUNT a",
     "CREDIT 100 USD TO ACCOUNT b FOR DEBIT ACCOUNT a",
     "CREDIT 100 USD TO ACCOUNT b FOR DEBIT FROM a",
     "DEBIT 100 USD FOR CREDIT TO ACCOUNT b FROM ACCOUNT a",
     "DEBIT 100 USD FOR FROM ACCOUNT a CREDIT TO ACCOUNT b",
     "CREDIT 100 USD FOR DEBIT FROM ACCOUNT a TO ACCOUNT b",
     "CREDIT 100 USD FOR TO ACCOUNT b DEBIT FROM ACCOUNT a",
     "DEBIT 100 FROM ACCOUNT a FOR CREDIT TO ACCOUNT b",
     "DEBIT 100 USD now FROM ACCOUNT a FOR CREDIT TO ACCOUNT b",
     "CREDIT USD TO ACCOUNT b FOR DEBIT FROM ACCOUNT a",
     "DEBIT100 USD FROM ACCOUNTa FOR CREDIT TO ACCOUNT b",
     "  debit   100 usd  from account a for  credit to account b  ",
     "DEBIT 100 USD FROM ACCOUNT a FOR CREDIT TO ACCOUNT b ON",
     "DEBIT\t100 USD FROM ACCOUNT a FOR CREDIT TO ACCOUNT b",
     "DEBIT 100\tUSD FROM ACCOUNT a FOR CREDIT TO ACCOUNT b",
     "   ",
     ""}

\* the instruction values of single requests
Instructions ==
    {JsString(DebitForm(p)) : p \in Transfers}
        \cup {JsString(CreditForm(p)) : p \in Transfers}
        \cup {JsString(text) : text \in Malformed}
        \cup {JsUndefined}

\* the instructions of a sequence of calls on the same accounts
Workload ==
    {JsString("DEBIT 100 USD FROM ACCOUNT a FOR CREDIT TO ACCOUNT b"),
     JsString("CREDIT 200 USD TO ACCOUNT a FOR DEBIT FROM ACCOUNT b"),
     JsString("DEBIT 300 USD FROM ACCOUNT a FOR CREDIT TO ACCOUNT b ON 2025-03-02"),
     JsString("credit 50 usd to account forest for debit from account b on 2025-03-01"),
     JsString("DEBIT 100 USD FROM ACCOUNT forest FOR CREDIT TO ACCOUNT bond"),
     JsString("DEBIT -5 USD FROM ACCOUNT a FOR CREDIT TO ACCOUNT b"),
     JsString("SEND 100 USD TO ACCOUNT b")}

(***************************************************************************)
(* The state machine                                                       *)
(***************************************************************************)

Request(accs, instruction, at) == [accounts |-> accs, instruction |-> instruction, at |-> at]

\* the handler of POST /payment-instructions: one whole call of the service on
\* the caller's accounts
Handle(instruction) ==
    LET out == paymentInstructionsService(accounts, instruction, now)
    IN  /\ accounts' = out.accounts
        /\ response' = Some(out.response)
        /\ request' = Some(Request(accounts, instruction, now))
        /\ calls' = calls + 1
        /\ UNCHANGED <<now, opening>>

\* time passes: to the last millisecond of the day, then to the next day
Tick ==
    /\ now.day < StartDay + MaxDays
    /\ now' = IF now.ms = 0 THEN Time(now.day, LastMs) ELSE Time(now.day + 1, 0)
    /\ UNCHANGED <<accounts, request, response, opening, calls>>

\* a sequence of calls on the same account objects, as time passes
Init ==
    /\ accounts \in InitialAccounts
    /\ opening = accounts
    /\ now = Time(StartDay, 0)
    /\ request = Null
    /\ response = Null
    /\ calls = 0

Call == \E instruction \in Workload : calls < MaxCalls /\ Handle(instruction)

Next == Call \/ Tick

Spec == Init /\ [][Next]_vars

\* one request, of any instruction, at any time of the modelled days
InitRequest ==
    /\ accounts \in InitialAccounts
    /\ opening = accounts
    /\ now \in {Time(StartDay + d, ms) : d \in 0..MaxDays, ms \in {0, LastMs}}
    /\ request = Null
    /\ response = Null
    /\ calls = 0

NextRequest == \E instruction \in Instructions : calls = 0 /\ Handle(instruction)

SpecRequest == InitRequest /\ [][NextRequest]_vars

(***************************************************************************)
(* Request objects of any shape: the body is handed to the service as it    *)
(* came, with or without an accounts array                                  *)
(***************************************************************************)

JsNumber == [type |-> "number", str |-> ""]
JsArray(items) == [type |-> "array", items |-> items]

\* a promise that is rejected with the error thrown in the async function
Rejected(error) == [rejected |-> TRUE, error |-> error]

\* const { accounts, instruction } = serviceData, and the rest of the service:
\* after a parse failure accounts is not read; otherwise accounts.find is
\* called (line 341, or line 551 when an earlier rule has failed), which
\* throws a TypeError when accounts is not an array
serviceOfBody(serviceData, clock) ==
    LET parsed == parseInstruction(serviceData.instruction)
    IN  IF parsed.error
        THEN parseFailed(parsed)
        ELSE IF serviceData.accounts.type # "array"
        THEN Rejected("TypeError: Cannot read properties of undefined (reading 'find')")
        ELSE paymentInstructionsService(serviceData.accounts.items,
                                        serviceData.instruction, clock).response

\* the instruction values of request objects: missing, empty, not a string,
\* malformed, well-formed
BodyInstructions == Workload \cup {JsUndefined, JsNumber, JsString(""), JsString("   ")}

HandleBody(instruction, withAccounts) ==
    LET serviceData == [accounts |-> IF withAccounts THEN JsArray(accounts)
                                     ELSE JsUndefined,
                        instruction |-> instruction]
    IN  /\ response' = Some(serviceOfBody(serviceData, now))
        /\ accounts' = IF withAccounts
                       THEN paymentInstructionsService(accounts, instruction, now).accounts
                       ELSE accounts
        /\ request' = Some([accounts |-> serviceData.accounts,
                            instruction |-> instruction, at |-> now])
        /\ calls' = calls + 1
        /\ UNCHANGED <<now, opening>>

NextBody ==
    \E instruction \in BodyInstructions, withAccounts \in BOOLEAN :
        calls = 0 /\ HandleBody(instruction, withAccounts)

SpecBody == InitRequest /\ [][NextBody]_vars

(***************************************************************************)
(* Concurrent requests on the same account objects.  The service is an      *)
(* async function without an await: a call runs from parsing to the return  *)
(* statement in one turn of the event loop, and the handler that awaits it  *)
(* is resumed in a later turn.  Here request[h] is the request handler h    *)
(* has received, with its position and the value its promise resolved to,   *)
(* and response[h] is what the handler has returned.                        *)
(***************************************************************************)

MaxHandlers == 2

Handlers == 1..MaxHandlers

\* the instructions of requests that compete for the balances of a and b
ConcurrentWorkload ==
    {JsString("DEBIT 100 USD FROM ACCOUNT a FOR CREDIT TO ACCOUNT b"),
     JsString("CREDIT 200 USD TO ACCOUNT a FOR DEBIT FROM ACCOUNT b"),
     JsString("DEBIT 300 USD FROM ACCOUNT a FOR CREDIT TO ACCOUNT b")}

\* the handler up to its await, for a service that reads the balances as they
\* were when the requests arrived and applies its changes to the present ones
ServeSuspending(h) ==
    LET out == paymentInstructionsService(opening, request[h].instruction, now)
    IN  /\ request[h].pc = "received"
        /\ accounts' = [i \in 1..Len(accounts) |->
                           [accounts[i] EXCEPT !.balance =
                               @ + out.accounts[i].balance - opening[i].balance]]
        /\ request' = [request EXCEPT ![h].pc = "awaiting",
                                      ![h].result = Some(out.response)]
        /\ calls' = calls + 1
        /\ UNCHANGED <<now, response, opening>>

\* const response = await paymentInstructionsService(payload): the whole call
\* of the service, after which the handler is suspended
Serve(h) ==
    LET out == paymentInstructionsService(accounts, request[h].instruction, now)
    IN  /\ request[h].pc = "received"
        /\ accounts' = out.accounts
        /\ request' = [request EXCEPT ![h].pc = "awaiting",
                                      ![h].result = Some(out.response)]
        /\ calls' = calls + 1
        /\ UNCHANGED <<now, response, opening>>

\* the handler resumed: return { status: response.httpStatus, data: response.data }
Resume(h) ==
    /\ request[h].pc = "awaiting"
    /\ response' = [response EXCEPT ![h] =
                       Some([status |-> request[h].result[1].httpStatus,
                             data |-> request[h].result[1].data])]
    /\ request' = [request EXCEPT ![h].pc = "responded"]
    /\ UNCHANGED <<accounts, now, opening, calls>>

InitConcurrent ==
    /\ accounts \in InitialAccounts
    /\ opening = accounts
    /\ now = Time(StartDay, 0)
    /\ request \in [Handlers -> [instruction : ConcurrentWorkload,
                                 pc : {"received"}, result : {Null}]]
    /\ response = [h \in Handlers |-> Null]
    /\ calls = 0

NextConcurrent == \E h \in Handlers : Serve(h) \/ Resume(h)

SpecConcurrent == InitConcurrent /\ [][NextConcurrent]_vars

(***************************************************************************)
(* Repeated submission                                                     *)
(***************************************************************************)

\* the number of submissions followed
MaxSubmissions == 7

\* instructions a caller submits again and again
RepeatWorkload ==
    {JsString("DEBIT 100 USD FROM ACCOUNT a FOR CREDIT TO ACCOUNT b"),
     JsString("CREDIT 200 USD TO ACCOUNT a FOR DEBIT FROM ACCOUNT b"),
     JsString("DEBIT 250 USD FROM ACCOUNT a FOR CREDIT TO ACCOUNT b"),
     JsString("DEBIT 100 USD FROM ACCOUNT a FOR CREDIT TO ACCOUNT b ON 2025-03-01"),
     JsString("DEBIT 300 USD FROM ACCOUNT a FOR CREDIT TO ACCOUNT b ON 2025-03-02"),
     JsString("DEBIT 900 USD FROM ACCOUNT a FOR CREDIT TO ACCOUNT b"),
     JsString("DEBIT 100 USD FROM ACCOUNT a FOR CREDIT TO ACCOUNT zed")}

\* the caller posts the instruction of the request once more, with the same
\* account objects
Resubmit == calls < MaxSubmissions /\ Handle(request[1].instruction)

\* the caller holds the accounts and the instruction it is about to submit
InitRepeat ==
    /\ accounts \in InitialAccounts
    /\ opening = accounts
    /\ now = Time(StartDay, 0)
    /\ request \in {Some(Request(accounts, instruction, now)) :
                        instruction \in RepeatWorkload}
    /\ response = Null
    /\ calls = 0

NextRepeat == Resubmit \/ Tick

SpecRepeat == InitRepeat /\ [][NextRepeat]_vars

\* a submission counted: the steps of SpecRepeat that change calls are its
\* Resubmit steps, and Resubmit is enabled whenever calls < MaxSubmissions
Submitted == calls < MaxSubmissions /\ calls' = calls + 1

\* the caller goes on submitting: weak fairness of Resubmit, stated on the
\* count of the submissions
SpecRepeatFair == SpecRepeat /\ WF_calls(Submitted)

(***************************************************************************)
(* Properties                                                              *)
(***************************************************************************)

Called == response # Null
Outcome == response[1].data
Supplied == request[1].accounts

RECURSIVE SumBalances(_)
SumBalances(accs) ==
    IF accs = <<>> THEN 0 ELSE accs[1].balance + SumBalances(Tail(accs))

\* C1: after a successful call the debit account holds its balance before the
\* call minus the amount and the credit account its balance before the call
\* plus the amount; after a failed or pending call every supplied account holds
\* the balance it had before the call.
C1_Conservation ==
    Called =>
        IF Outcome.status = "successful"
        THEN LET d == Find(Supplied, Outcome.debit_account[1])
                 c == Find(Supplied, Outcome.credit_account[1])
             IN  /\ d # 0
                 /\ c # 0
                 /\ accounts[d].balance = Supplied[d].balance - Outcome.amount[1]
                 /\ accounts[c].balance = Supplied[c].balance + Outcome.amount[1]
        ELSE /\ Outcome.status \in {"failed", "pending"}
             /\ Len(accounts) = Len(Supplied)
             /\ \A i \in 1..Len(accounts) : accounts[i].balance = Supplied[i].balance

\* a successful transfer of 100 has changed the balances
C1_Witness ==
    /\ Called
    /\ Outcome.status = "successful"
    /\ Outcome.amount = Some(100)
    /\ accounts # Supplied

\* C2: after any sequence of calls on the same accounts, the sum of all
\* balances is the sum before the first call.
C2_SumPreserved == SumBalances(accounts) = SumBalances(opening)

\* several calls have been served and the balances have moved
C2_Witness ==
    /\ calls >= 2
    /\ accounts # opening
    /\ Called
    /\ Outcome.status = "failed"

\* the draft the parser makes of the latest request, when it makes one
Parsed == parseInstruction(request[1].instruction)

RuleOrder == <<"AM01", "CU02", "AC04", "AC02", "AC03", "CU01", "AC01", "DT01">>

\* whether the draft breaks the rule of the given code; the rules on resolved
\* accounts (CU01, AC01) are broken only by accounts that resolve, and the
\* funds rule only by an amount that is a number
Breaks(code, parsed, accs) ==
    CASE code = "AM01" -> checkAmount(parsed).error
      [] code = "CU02" -> checkCurrency(parsed).error
      [] code = "AC04" -> checkAccountIds(parsed).error
      [] code = "AC02" -> checkDistinct(parsed).error
      [] code = "AC03" -> checkExist(parsed, accs).error
      [] code = "CU01" -> /\ ~checkExist(parsed, accs).error
                          /\ checkCurrencyMatch(parsed, accs).error
      [] code = "AC01" -> /\ ~checkExist(parsed, accs).error
                          /\ ~ParseInt(parsed.amount).nan
                          /\ checkFunds(parsed, accs).error
      [] code = "DT01" -> checkDate(parsed).error

Broken(parsed, accs) == {k \in 1..Len(RuleOrder) : Breaks(RuleOrder[k], parsed, accs)}

\* C3: the status_code of a draft that breaks some rule is the code of the
\* earliest rule it breaks in the order AM01, CU02, AC04, AC02, AC03, CU01,
\* AC01, DT01; a draft that breaks none is not failed.
C3_FirstFailingRule ==
    Called =>
        LET parsed == Parsed
            broken == Broken(parsed, Supplied)
        IN  ~parsed.error =>
                IF broken = {}
                THEN Outcome.status # "failed"
                ELSE /\ Outcome.status = "failed"
                     /\ Outcome.status_code = RuleOrder[Min(broken)]

\* a draft that breaks five rules at once, the amount rule not among them
C3_Witness ==
    /\ Called
    /\ ~Parsed.error
    /\ Cardinality(Broken(Parsed, Supplied)) >= 5
    /\ 1 \notin Broken(Parsed, Supplied)
    /\ Outcome.status_code = "CU02"

\* C4: the DEBIT form and the CREDIT form of the same transfer, served on the
\* same accounts at the same time, give the same debit_account, credit_account,
\* status and status_code and leave the same balances.
C4_Symmetry ==
    Called =>
        \A p \in Transfers :
            request[1].instruction = JsString(DebitForm(p)) =>
                LET twin == paymentInstructionsService(Supplied,
                                JsString(CreditForm(p)), request[1].at)
                IN  /\ twin.response.data.debit_account = Outcome.debit_account
                    /\ twin.response.data.credit_account = Outcome.credit_account
                    /\ twin.response.data.status = Outcome.status
                    /\ twin.response.data.status_code = Outcome.status_code
                    /\ twin.accounts = accounts

IsLeapYear(y) == y % 4 = 0 /\ (y % 100 # 0 \/ y % 400 = 0)

DaysInMonth(y, m) ==
    IF m = 2 THEN (IF IsLeapYear(y) THEN 29 ELSE 28)
    ELSE IF m \in {4, 6, 9, 11} THEN 30 ELSE 31

\* the year, month and day a string YYYY-MM-DD writes
CalendarDay(s) ==
    <<DigitsValue(SubSeq(s, 1, 4), 0), DigitsValue(SubSeq(s, 6, 7), 0),
      DigitsValue(SubSeq(s, 9, 10), 0)>>

\* the string writes a day of the calendar as YYYY-MM-DD
IsCalendarDate(s) ==
    /\ Len(s) = 10
    /\ \A i \in 1..10 : IF i \in {5, 8} THEN SubSeq(s, i, i) = "-"
                        ELSE SubSeq(s, i, i) \in Digits
    /\ CalendarDay(s)[2] \in 1..12
    /\ CalendarDay(s)[3] \in 1..DaysInMonth(CalendarDay(s)[1], CalendarDay(s)[2])

\* the UTC calendar day of a time value
Today(t) == <<UTCFields(t).year, UTCFields(t).month, UTCFields(t).date>>

OnOrBefore(a, b) ==
    \/ a[1] < b[1]
    \/ a[1] = b[1] /\ a[2] < b[2]
    \/ a[1] = b[1] /\ a[2] = b[2] /\ a[3] <= b[3]

Executed ==
    /\ Outcome.status = "successful"
    /\ Outcome.status_code = "AP00"
    /\ accounts # Supplied

Deferred ==
    /\ Outcome.status = "pending"
    /\ Outcome.status_code = "AP02"
    /\ accounts = Supplied

\* C5: a draft that passes validation is executed (successful, AP00, balances
\* updated) when it has no date or its date is a calendar day on or before the
\* UTC calendar day of the clock, and is deferred (pending, AP02, no balance
\* updated) when its date is a later calendar day; the same request served at
\* the other end of the same UTC day has the same result.
C5_Schedule ==
    Called =>
      LET parsed == Parsed
      IN  (~parsed.error /\ ~validateInstruction(parsed, Supplied).error) =>
        /\ parsed.executeBy \in {Null, Some("")} => Executed
        /\ (parsed.executeBy # Null /\ IsCalendarDate(parsed.executeBy[1])) =>
              IF OnOrBefore(CalendarDay(parsed.executeBy[1]), Today(request[1].at))
              THEN Executed
              ELSE Deferred
        /\ LET other == paymentInstructionsService(Supplied, request[1].instruction,
                            Time(request[1].at.day, LastMs - request[1].at.ms))
           IN  other.response = response[1] /\ other.accounts = accounts

\* a transfer dated the day of the clock, served in the last millisecond of
\* that day, is executed
C5_Witness ==
    /\ Called
    /\ ~Parsed.error
    /\ Parsed.executeBy # Null
    /\ IsCalendarDate(Parsed.executeBy[1])
    /\ CalendarDay(Parsed.executeBy[1]) = Today(request[1].at)
    /\ request[1].at.ms = LastMs
    /\ Executed

\* the normalized, upper-cased text of the latest request
Upper == ToUpperCase(Normalize(request[1].instruction.str))

BeginsWith(s, word) == IndexOf(s, word, 0) = 0

\* what the parser of the instruction's form makes of the latest request
FormOutcome ==
    IF BeginsWith(Upper, "DEBIT")
    THEN parseDebitInstruction(Normalize(request[1].instruction.str))
    ELSE parseCreditInstruction(Normalize(request[1].instruction.str))

HasForm == BeginsWith(Upper, "DEBIT") \/ BeginsWith(Upper, "CREDIT")

\* C6: an instruction that begins with DEBIT (with CREDIT) in which the parser
\* cannot find some required keyword of its sequence is failed with SY01.
C6_MissingKeywordIsSY01 ==
    Called =>
        ((/\ HasForm
          /\ FormOutcome.thrown
          /\ BeginsWith(FormOutcome.message, "Missing required keyword"))
            => Outcome.status = "failed" /\ Outcome.status_code = "SY01")

\* C7: an instruction in which the parser finds all the required keywords, at
\* positions that are not strictly increasing in the expected order, is failed
\* with SY02.
C7_KeywordOrderIsSY02 ==
    Called =>
        ((HasForm /\ FormOutcome = Throw(STATUS_CODES.SY02))
            => Outcome.status = "failed" /\ Outcome.status_code = "SY02")

\* the decimal form of a strictly positive integer
IsCanonicalAmount(s) == s # "" /\ AllDigits(s) /\ CharAt(s, 0) # "0"

\* C8: an instruction of either grammar whose amount token is not the decimal
\* form of a strictly positive integer is failed with AM01, whatever its
\* currency, identifiers and date and whatever the accounts.
C8_BadAmountIsAM01 ==
    Called =>
        \A p \in Transfers :
            (/\ ~IsCanonicalAmount(p.amount)
             /\ request[1].instruction \in
                    {JsString(DebitForm(p)), JsString(CreditForm(p))})
                => Outcome.status = "failed" /\ Outcome.status_code = "AM01"

\* C9: the snapshots of a result are snapshots of supplied accounts and come
\* in the order in which those accounts were supplied, whichever is the debit
\* and whichever the credit account.
C9_OrderPreserved ==
    Called =>
        LET snaps == Outcome.accounts
        IN  /\ \A i \in 1..Len(snaps) :
                  \E k \in 1..Len(Supplied) : Supplied[k].id = snaps[i].id
            /\ \A i, j \in 1..Len(snaps) :
                  i < j => \E k, l \in 1..Len(Supplied) :
                              /\ k < l
                              /\ Supplied[k].id = snaps[i].id
                              /\ Supplied[l].id = snaps[j].id

\* accounts supplied as b, a, c and a transfer from a to b: the snapshots are b, a
C9_Witness ==
    /\ Called
    /\ Outcome.status = "successful"
    /\ Outcome.debit_account = Some("a")
    /\ Outcome.credit_account = Some("b")
    /\ Len(Supplied) = 3
    /\ Len(Outcome.accounts) = 2
    /\ Outcome.accounts[1].id = "b"
    /\ Outcome.accounts[2].id = "a"

\* the snapshots of the result are two, one of the debit account and one of
\* the credit account
TwoSnapshots ==
    /\ Len(Outcome.accounts) = 2
    /\ \E i \in 1..2 : Outcome.accounts[i].id = Outcome.debit_account[1]
    /\ \E i \in 1..2 : Outcome.accounts[i].id = Outcome.credit_account[1]

DistinctIds(accs) ==
    \A i, j \in 1..Len(accs) : accs[i].id = accs[j].id => i = j

\* C10 as stated: for every supplied account list, a successful or pending
\* result holds exactly two snapshots, of the debit and of the credit account.
C10_TwoSnapshots ==
    (Called /\ Outcome.status \in {"successful", "pending"}) => TwoSnapshots

\* C10 as amended: for every supplied account list whose ids are pairwise
\* distinct, a successful or pending result holds exactly two snapshots, one of
\* the debit account and one of the credit account, and none of another account.
C10_TwoSnapshotsOfDistinctIds ==
    (Called /\ Outcome.status \in {"successful", "pending"} /\ DistinctIds(Supplied))
        => TwoSnapshots

\* a pending transfer between two of three supplied accounts
C10_Witness ==
    /\ Called
    /\ Outcome.status = "pending"
    /\ DistinctIds(Supplied)
    /\ Len(Supplied) = 3
    /\ TwoSnapshots

\* the supplied accounts the result names as debit or credit account, in the
\* order supplied: the accounts the snapshots are taken of
Involved ==
    SelectSeq(Supplied, LAMBDA acc :
        Outcome.debit_account = Some(acc.id) \/ Outcome.credit_account = Some(acc.id))

C12_ParseFailureIsEmpty ==
    (Called /\ Parsed.error) =>
        /\ response[1].httpStatus = 400
        /\ Outcome.status = "failed"
        /\ Outcome.type = Null
        /\ Outcome.amount = Null
        /\ Outcome.currency = Null
        /\ Outcome.debit_account = Null
        /\ Outcome.credit_account = Null
        /\ Outcome.execute_by = Null
        /\ Outcome.accounts = <<>>
        /\ accounts = Supplied

\* an instruction without FOR that names the supplied accounts a and b
C12_Witness ==
    /\ Called
    /\ Parsed.error
    /\ request[1].instruction =
          JsString("DEBIT 100 USD FROM ACCOUNT a CREDIT TO ACCOUNT b")
    /\ Find(Supplied, "a") # 0
    /\ Find(Supplied, "b") # 0
    /\ Outcome.accounts = <<>>

FailureCodes ==
    {"SY01", "SY02", "SY03", "AM01", "CU01", "CU02", "AC01", "AC02", "AC03",
     "AC04", "DT01"}

\* C13: in every result status is successful exactly when status_code is
\* AP00, pending exactly when it is AP02 and failed exactly when it is one of
\* SY01, SY02, SY03, AM01, CU01, CU02, AC01, AC02, AC03, AC04, DT01;
\* httpStatus is 200 exactly when status is successful or pending and 400
\* exactly when it is failed; no other status_code is returned.
C13_StatusConsistent ==
    Called =>
        /\ Outcome.status_code \in FailureCodes \cup {"AP00", "AP02"}
        /\ Outcome.status = "successful" <=> Outcome.status_code = "AP00"
        /\ Outcome.status = "pending" <=> Outcome.status_code = "AP02"
        /\ Outcome.status = "failed" <=> Outcome.status_code \in FailureCodes
        /\ response[1].httpStatus = 200 <=> Outcome.status \in {"successful", "pending"}
        /\ response[1].httpStatus = 400 <=> Outcome.status = "failed"

\* a deferred transfer: pending, AP02, 200
C13_Witness ==
    /\ Called
    /\ Outcome.status = "pending"
    /\ Outcome.status_code = "AP02"
    /\ response[1].httpStatus = 200

\* C14: for every request object, whatever its instruction and its accounts,
\* the service returns a result {httpStatus, data} that carries a status and
\* a status_code; it never throws and its promise is never rejected.
C14_NeverThrows ==
    Called =>
        /\ DOMAIN response[1] = {"httpStatus", "data"}
        /\ {"status", "status_code"} \subseteq DOMAIN response[1].data

\* the times of a later call: the time of the latest request, the end of the
\* modelled days, and a day one year after
LaterTimes ==
    {request[1].at, Time(StartDay + MaxDays, LastMs), Time(StartDay + 365, 0)}

\* C15: when a call returns failed, a later call with the same instruction on
\* the same accounts returns failed with the same status_code and
\* status_reason, whatever the time of either call.
C15_FailureNotTransient ==
    (Called /\ Outcome.status = "failed") =>
        \A t \in LaterTimes :
            LET later == paymentInstructionsService(accounts,
                             request[1].instruction, t).response.data
            IN  /\ accounts = Supplied
                /\ later.status = "failed"
                /\ later.status_code = Outcome.status_code
                /\ later.status_reason = Outcome.status_reason

\* a transfer dated tomorrow fails today for another reason than its date;
\* the later calls are on and after its date
C15_Witness ==
    /\ Called
    /\ Outcome.status = "failed"
    /\ Outcome.status_code = "AC01"
    /\ Outcome.execute_by = Some("2025-03-02")
    /\ request[1].at = Time(StartDay, 0)
    /\ Cardinality(LaterTimes) = 3

\* the index in the account list of the i-th account a snapshot is taken of
RECURSIVE InvolvedIndex(_, _)
InvolvedIndex(i, from) ==
    IF Outcome.debit_account = Some(Supplied[from].id)
           \/ Outcome.credit_account = Some(Supplied[from].id)
    THEN (IF i = 1 THEN from ELSE InvolvedIndex(i - 1, from + 1))
    ELSE InvolvedIndex(i, from + 1)

\* each snapshot shows as balance_before the balance its account had before
\* the call and as balance the balance it has after; failed and pending
\* results show the two equal, successful results show the debit account
\* lower and the credit account higher by the amount
BalancesShown ==
    /\ Len(Outcome.accounts) = Len(Involved)
    /\ \A i \in 1..Len(Involved) :
          LET snap == Outcome.accounts[i]
              k == InvolvedIndex(i, 1)
          IN  /\ snap.id = Supplied[k].id
              /\ snap.balance_before = Supplied[k].balance
              /\ snap.balance = accounts[k].balance
              /\ Outcome.status \in {"failed", "pending"} =>
                    snap.balance = snap.balance_before
              /\ Outcome.status = "successful" =>
                    /\ Outcome.debit_account = Some(snap.id) =>
                          snap.balance_before - snap.balance = Outcome.amount[1]
                    /\ Outcome.credit_account = Some(snap.id) =>
                          snap.balance - snap.balance_before = Outcome.amount[1]

\* C16 as stated: in every result each snapshot shows its account's balance
\* before the call and its balance after the call, equal when the result is
\* failed or pending and differing by the amount when it is successful.
C16_BalancesShown == Called => BalancesShown

\* C16 as amended: the same, for every account list whose ids are pairwise
\* distinct.
C16_BalancesShownOfDistinctIds == (Called /\ DistinctIds(Supplied)) => BalancesShown

\* a successful transfer of 100 from a to b, supplied in the order b, a
C16_Witness ==
    /\ Called
    /\ DistinctIds(Supplied)
    /\ Outcome.status = "successful"
    /\ Len(Outcome.accounts) = 2
    /\ Outcome.accounts[1].id = "b"
    /\ Outcome.accounts[1].balance_before = 200
    /\ Outcome.accounts[1].balance = 300
    /\ Outcome.accounts[2].balance_before = 100
    /\ Outcome.accounts[2].balance = 0

\* the supplied accounts whose id is the draft's debit or credit identifier
Resolvable(parsed) ==
    SelectSeq(Supplied, LAMBDA acc :
        acc.id = parsed.debitAccount \/ acc.id = parsed.creditAccount)

\* the result carries the draft's values and an unchanged snapshot of each
\* resolvable account, of which there are none, one or two
EchoesDraft(parsed, resolvable) ==
    /\ Outcome.status = "failed"
    /\ Outcome.type = Some(parsed.type)
    /\ Outcome.currency = Some(parsed.currency)
    /\ Outcome.debit_account = Some(parsed.debitAccount)
    /\ Outcome.credit_account = Some(parsed.creditAccount)
    /\ Outcome.execute_by = parsed.executeBy
    /\ Len(Outcome.accounts) = Len(resolvable)
    /\ Len(Outcome.accounts) \in {0, 1, 2}
    /\ \A i \in 1..Len(resolvable) :
          /\ Outcome.accounts[i].id = resolvable[i].id
          /\ Outcome.accounts[i].balance = resolvable[i].balance
          /\ Outcome.accounts[i].balance_before = resolvable[i].balance
    /\ accounts = Supplied

\* the result of the latest request is that of a validation failure
ValidationFailed(parsed) == ~parsed.error /\ validateInstruction(parsed, Supplied).error

\* C17 as stated: when parsing succeeds and validation fails, type, currency,
\* debit_account, credit_account and execute_by are the draft's, and accounts
\* holds a snapshot of exactly the supplied accounts whose id is the draft's
\* debit or credit identifier (none, one or two), each with balance =
\* balance_before = the account's unchanged balance.
C17_EchoesDraft ==
    Called =>
        LET parsed == Parsed
        IN  ValidationFailed(parsed) => EchoesDraft(parsed, Resolvable(parsed))

\* C17 as amended: the same, for every account list whose ids are pairwise
\* distinct.
C17_EchoesDraftOfDistinctIds ==
    (Called /\ DistinctIds(Supplied)) =>
        LET parsed == Parsed
        IN  ValidationFailed(parsed) => EchoesDraft(parsed, Resolvable(parsed))

\* the credit identifier does not resolve: one snapshot, of the debit account
C17_Witness ==
    /\ Called
    /\ DistinctIds(Supplied)
    /\ ValidationFailed(Parsed)
    /\ Outcome.status_code = "AC03"
    /\ Outcome.execute_by # Null
    /\ Len(Outcome.accounts) = 1
    /\ Outcome.debit_account = Some(Outcome.accounts[1].id)

RECURSIVE ToLowerCase(_)
ToLowerCase(s) ==
    IF s = "" THEN ""
    ELSE LET ch == CharAt(s, 0)
         IN  (IF ch \in UpperCase THEN CHOOSE c \in LowerCase : LowerToUpper[c] = ch
              ELSE ch) \o ToLowerCase(Tail(s))

\* the keywords of the two grammars by token position; position 3 is the
\* currency token
DebitKeywords ==
    <<"DEBIT", "", "", "FROM", "ACCOUNT", "", "FOR", "CREDIT", "TO", "ACCOUNT", "",
      "ON", "">>
CreditKeywords ==
    <<"CREDIT", "", "", "TO", "ACCOUNT", "", "FOR", "DEBIT", "FROM", "ACCOUNT", "",
      "ON", "">>

\* the tokens are those of an instruction of the grammar, in any letter case
InGrammar(tokens, keywords) ==
    /\ Len(tokens) \in {11, 13}
    /\ \A i \in 1..Len(tokens) : keywords[i] # "" => ToUpperCase(tokens[i]) = keywords[i]

\* the token in lower case, in upper case, or capitalised
Cased(token, style) ==
    CASE style = "lower" -> ToLowerCase(token)
      [] style = "upper" -> ToUpperCase(token)
      [] style = "capital" -> ToUpperCase(SubSeq(token, 1, 1))
                                 \o ToLowerCase(Tail(token))

\* the instruction with its keywords and its currency token in another case
Recased(tokens, keywords, style) ==
    JoinSpace([i \in 1..Len(tokens) |->
        IF keywords[i] # "" \/ i = 3 THEN Cased(tokens[i], style) ELSE tokens[i]])

\* an identifier that is the id of no supplied account and differs from the
\* id of one only in letter case
OnlyCaseDiffers(id) ==
    /\ Find(Supplied, id) = 0
    /\ \E k \in 1..Len(Supplied) : ToUpperCase(Supplied[k].id) = ToUpperCase(id)

\* C18: writing the keywords and the currency token of an instruction in
\* another letter case changes neither the result nor the balances; an
\* identifier that differs from a supplied account's id only in letter case
\* does not resolve to it: when the rules before AC03 pass, the result is
\* failed with AC03 and has no snapshot of that account.
C18_CaseOfKeywordsAndIds ==
    (Called /\ request[1].instruction.type = "string") =>
        LET tokens == SplitSpace(request[1].instruction.str)
            parsed == Parsed
        IN  /\ \A keywords \in {DebitKeywords, CreditKeywords} :
                  InGrammar(tokens, keywords) =>
                      \A style \in {"lower", "upper", "capital"} :
                          paymentInstructionsService(Supplied,
                              JsString(Recased(tokens, keywords, style)),
                              request[1].at)
                            = [accounts |-> accounts, response |-> response[1]]
            /\ (/\ ~parsed.error
                /\ \A k \in 1..4 : ~Breaks(RuleOrder[k], parsed, Supplied)
                /\ OnlyCaseDiffers(parsed.debitAccount)
                      \/ OnlyCaseDiffers(parsed.creditAccount))
                  => /\ Outcome.status_code = "AC03"
                     /\ \A i \in 1..Len(Outcome.accounts) :
                           Find(Supplied, Outcome.accounts[i].id) # 0
                           /\ Outcome.accounts[i].id
                                 \in {parsed.debitAccount, parsed.creditAccount}

\* the positions of the keywords when each is searched from the position
\* after the keyword found before it, the first from the start; -1 for a
\* keyword that is not found
RECURSIVE InSequence(_, _, _)
InSequence(upper, keywords, from) ==
    IF keywords = <<>> THEN <<>>
    ELSE LET p == IndexOf(upper, Head(keywords), from)
         IN  <<p>> \o InSequence(upper, Tail(keywords),
                                 IF p = -1 THEN from ELSE p + 1)

\* the positions at which the parser of the instruction's form binds the
\* keywords of its fixed sequence
BoundPositions(upper) ==
    IF BeginsWith(upper, "DEBIT")
    THEN LET pos == debitKeywordPositions(upper)
         IN  <<pos.debitPos, pos.fromPos, pos.accountPos1, pos.forPos,
               pos.creditPos, pos.toPos, pos.accountPos2, pos.onPos>>
    ELSE LET pos == creditKeywordPositions(upper)
         IN  <<pos.creditPos, pos.toPos, pos.accountPos1, pos.forPos,
               pos.debitPos, pos.fromPos, pos.accountPos2, pos.onPos>>

FixedSequence(upper) ==
    IF BeginsWith(upper, "DEBIT")
    THEN <<"DEBIT", "FROM", "ACCOUNT", "FOR", "CREDIT", "TO", "ACCOUNT", "ON">>
    ELSE <<"CREDIT", "TO", "ACCOUNT", "FOR", "DEBIT", "FROM", "ACCOUNT", "ON">>

\* C19: in both parsers each keyword of the fixed sequence binds where a
\* search that starts after the previously found keyword finds it, so text
\* equal to the keyword that occurs before that point never binds in place of
\* the occurrence that follows the previous keyword.
C19_SearchAfterPrevious ==
    (Called /\ request[1].instruction.type = "string") =>
        LET upper == Upper
            found == InSequence(upper, FixedSequence(upper), 0)
        IN  (/\ BeginsWith(upper, "DEBIT") \/ BeginsWith(upper, "CREDIT")
             /\ \A i \in 1..7 : found[i] # -1)
                => BoundPositions(upper) = found

\* the transfer [amount, currency, debit, credit] that an instruction of
\* eleven tokens writes in the DEBIT or in the CREDIT grammar
Written(tokens) ==
    IF InGrammar(tokens, DebitKeywords)
    THEN [amount |-> tokens[2], currency |-> tokens[3],
          debit |-> tokens[6], credit |-> tokens[11]]
    ELSE [amount |-> tokens[2], currency |-> tokens[3],
          debit |-> tokens[11], credit |-> tokens[6]]

\* a canonical positive amount in a supported currency between two distinct
\* well-formed identifiers of supplied accounts held in that currency, the
\* debit account holding at least the amount
Valid(p) ==
    /\ IsCanonicalAmount(p.amount)
    /\ ToUpperCase(p.currency) \in SUPPORTED_CURRENCIES
    /\ p.debit # p.credit
    /\ isValidAccountId(p.debit)
    /\ isValidAccountId(p.credit)
    /\ Find(Supplied, p.debit) # 0
    /\ Find(Supplied, p.credit) # 0
    /\ \A k \in 1..Len(Supplied) :
          Supplied[k].id \in {p.debit, p.credit} =>
              ToUpperCase(Supplied[k].currency) = ToUpperCase(p.currency)
    /\ Supplied[Find(Supplied, p.debit)].balance >= DigitsValue(p.amount, 0)

\* C20: an instruction of either grammar without a date that writes a valid
\* transfer is successful with AP00, and its debit_account and credit_account
\* are the two identifiers as written.
C20_ValidTransferSucceeds ==
    (Called /\ request[1].instruction.type = "string") =>
        LET tokens == SplitSpace(request[1].instruction.str)
        IN  (/\ Len(tokens) = 11
             /\ InGrammar(tokens, DebitKeywords) \/ InGrammar(tokens, CreditKeywords)
             /\ Valid(Written(tokens)))
                => /\ Outcome.status = "successful"
                   /\ Outcome.status_code = "AP00"
                   /\ Outcome.debit_account = Some(Written(tokens).debit)
                   /\ Outcome.credit_account = Some(Written(tokens).credit)

\* C21: after any sequence of calls on accounts whose balances were all
\* non-negative, every balance is non-negative: a transfer is executed only
\* when the debit account holds at least the amount, it is refused for funds
\* only when the account holds less, and one of exactly the balance leaves 0.
C21_NonNegative ==
    (\A i \in 1..Len(opening) : opening[i].balance >= 0) =>
        /\ \A i \in 1..Len(accounts) : accounts[i].balance >= 0
        /\ (Called /\ Outcome.status = "successful") =>
              LET d == Find(Supplied, Outcome.debit_account[1])
              IN  /\ Supplied[d].balance >= Outcome.amount[1]
                  /\ accounts[d].balance = Supplied[d].balance - Outcome.amount[1]
        /\ (Called /\ Outcome.status_code = "AC01") =>
              Supplied[Find(Supplied, Outcome.debit_account[1])].balance
                  < Outcome.amount[1]

\* after an earlier call, a transfer of exactly the debit account's balance is
\* executed and leaves it at 0
C21_Witness ==
    /\ calls >= 2
    /\ Called
    /\ Outcome.status = "successful"
    /\ LET d == Find(Supplied, Outcome.debit_account[1])
       IN  /\ Supplied[d].balance = Outcome.amount[1]
           /\ accounts[d].balance = 0

\* the handlers whose call of the service has run
Served == {h \in Handlers : request[h].pc # "received"}

\* the orders in which the calls of a set of handlers can run one after another
Orders(S) ==
    {order \in [1..Cardinality(S) -> S] :
        \A i, j \in 1..Cardinality(S) : order[i] = order[j] => i = j}

\* the calls of the handlers of `order` run one after another on accs: the
\* accounts they leave and the value each returns
RECURSIVE OneAfterAnother(_, _)
OneAfterAnother(order, accs) ==
    IF order = <<>> THEN [accounts |-> accs, results |-> <<>>]
    ELSE LET out == paymentInstructionsService(accs, request[Head(order)].instruction, now)
             rest == OneAfterAnother(Tail(order), out.accounts)
         IN  [accounts |-> rest.accounts, results |-> <<out.response>> \o rest.results]

\* C22: when several calls are issued concurrently on the same account
\* objects, the balances and the results are those of running the calls one
\* after another in some order, every handler returns the result of its own
\* call, and no balance goes below 0.
C22_Serializable ==
    /\ \E order \in Orders(Served) :
          LET serial == OneAfterAnother(order, opening)
          IN  /\ serial.accounts = accounts
              /\ \A i \in 1..Len(order) :
                    request[order[i]].result = Some(serial.results[i])
    /\ \A i \in 1..Len(accounts) : accounts[i].balance >= 0
    /\ \A h \in Handlers :
          response[h] # Null =>
              /\ response[h][1].status = request[h].result[1].httpStatus
              /\ response[h][1].data = request[h].result[1].data

\* two requests for the same transfer of all of a's balance: the call of the
\* second ran while the first handler was suspended; one is executed and the
\* other is refused for funds
C22_Witness ==
    /\ request[1].instruction = request[2].instruction
    /\ request[1].pc = "awaiting"
    /\ request[2].pc = "responded"
    /\ {request[1].result[1].data.status_code,
        request[2].result[1].data.status_code} = {"AP00", "AC01"}
    /\ \E i \in 1..Len(accounts) : accounts[i].id = "a" /\ accounts[i].balance = 0

\* C23: when the rules before DT01 pass, a supplied date passes DT01 only if
\* it writes a real calendar day as YYYY-MM-DD; every other date string is
\* failed with DT01.
C23_OnlyCalendarDatesPass ==
    Called =>
        LET parsed == Parsed
        IN  (/\ ~parsed.error
             /\ parsed.executeBy # Null
             /\ \A k \in 1..7 : ~Breaks(RuleOrder[k], parsed, Supplied))
                => IF IsCalendarDate(parsed.executeBy[1])
                   THEN Outcome.status # "failed"
                   ELSE Outcome.status = "failed" /\ Outcome.status_code = "DT01"

\* the tokens of a text: its pieces between runs of white space
RECURSIVE Tokens(_)
Tokens(s) ==
    LET t == TrimStart(s)
        n == Min({i \in 0..Len(t) : i = Len(t) \/ CharAt(t, i) \in WhiteSpace})
    IN  IF t = "" THEN <<>>
        ELSE <<Substring(t, 0, n)>> \o Tokens(SubstringFrom(t, n))

\* C24: an instruction gives the result of the same instruction written with
\* single spaces between its tokens and none around them, whatever runs of
\* spaces, tabs and newlines separate or surround its tokens.
C24_WhitespaceCollapsed ==
    (Called /\ request[1].instruction.type = "string") =>
        paymentInstructionsService(Supplied,
            JsString(JoinSpace(Tokens(request[1].instruction.str))), request[1].at)
          = [accounts |-> accounts, response |-> response[1]]

\* the request passed validation, so the service asked shouldExecuteImmediately
SchedulerReached == Called /\ Outcome.status \in {"successful", "pending"}

\* C25: the scheduler is never asked about a date string that fails
\* validateDate, since validation has answered DT01 for it before, and so no
\* request is pending because its date is invalid.
C25_InvalidDateUnreachable ==
    SchedulerReached =>
        LET parsed == Parsed
        IN  parsed.executeBy # Null => ~validateDate(parsed.executeBy[1]).error

\* C26: a call changes nothing but the balance of the debit account and of
\* the credit account of a transfer it executes: the list keeps its length
\* and order, every account keeps its id, its currency and its fields, every
\* other account keeps its balance, and a failed or pending call leaves the
\* whole list as it was supplied.
C26_Frame ==
    Called =>
        /\ Len(accounts) = Len(Supplied)
        /\ \A i \in 1..Len(Supplied) :
              /\ DOMAIN accounts[i] = DOMAIN Supplied[i]
              /\ accounts[i].id = Supplied[i].id
              /\ accounts[i].currency = Supplied[i].currency
        /\ Outcome.status \in {"failed", "pending"} => accounts = Supplied
        /\ Outcome.status = "successful" =>
              \A i \in 1..Len(Supplied) :
                  i \notin {Find(Supplied, Outcome.debit_account[1]),
                            Find(Supplied, Outcome.credit_account[1])}
                      => accounts[i] = Supplied[i]

\* an executed transfer between two of three accounts, one of which holds
\* its currency in lower case
C26_Witness ==
    /\ Called
    /\ Outcome.status = "successful"
    /\ Len(Supplied) = 3
    /\ accounts # Supplied
    /\ \E i \in 1..3 : accounts[i].currency = "usd" /\ accounts[i].balance # Supplied[i].balance
    /\ \E i \in 1..3 : Outcome.debit_account # Some(Supplied[i].id)
                       /\ Outcome.credit_account # Some(Supplied[i].id)

\* C27: the execute_by of a successful or pending result is null or a text of
\* ten characters YYYY-MM-DD that passes validateDate.
C27_ExecuteByWellFormed ==
    (Called /\ Outcome.status \in {"successful", "pending"}
            /\ Outcome.execute_by # Null) =>
        LET date == Outcome.execute_by[1]
        IN  /\ Len(date) = 10
            /\ AllDigits(Substring(date, 0, 4)) /\ CharAt(date, 4) = "-"
            /\ AllDigits(Substring(date, 5, 7)) /\ CharAt(date, 7) = "-"
            /\ AllDigits(Substring(date, 8, 10))
            /\ ~validateDate(date).error

\* C28: the text of every instruction with a successful or pending result is,
\* once normalized, a sequence of tokens separated by single spaces that
\* matches the DEBIT or the CREDIT grammar, each keyword a token of its own.
C28_AcceptedIsInGrammar ==
    (Called /\ request[1].instruction.type = "string"
            /\ Outcome.status \in {"successful", "pending"}) =>
        LET tokens == SplitSpace(Normalize(request[1].instruction.str))
        IN  InGrammar(tokens, DebitKeywords) \/ InGrammar(tokens, CreditKeywords)

\* the instruction of the request is valid for the opening accounts but for
\* the funds it needs, and is not dated after the first day
ImmediatelyExecutable ==
    LET parsed == Parsed
    IN  /\ ~parsed.error
        /\ \A k \in 1..Len(RuleOrder) :
              RuleOrder[k] # "AC01" => ~Breaks(RuleOrder[k], parsed, opening)
        /\ shouldExecuteImmediately(parsed.executeBy, Time(StartDay, 0))

\* the accounts after n executions of the instruction of the request on the
\* opening accounts
AfterExecutions(n) ==
    LET parsed == Parsed
        amountNum == ParseInt(parsed.amount).n
        d == Find(opening, parsed.debitAccount)
        c == Find(opening, parsed.creditAccount)
    IN  [i \in 1..Len(opening) |->
            [opening[i] EXCEPT !.balance =
                @ - (IF i = d THEN n * amountNum ELSE 0)
                  + (IF i = c THEN n * amountNum ELSE 0)]]

\* floor(opening balance of the debit account / amount)
Affordable ==
    LET parsed == Parsed
    IN  opening[Find(opening, parsed.debitAccount)].balance
            \div ParseInt(parsed.amount).n

\* the latest submission was refused for funds and the accounts are as the
\* affordable executions left them
Exhausted ==
    /\ Called
    /\ Outcome.status = "failed"
    /\ Outcome.status_code = "AC01"
    /\ accounts = AfterExecutions(Affordable)

\* C29: an immediately executable instruction submitted again and again on the
\* same account objects is successful in its first floor(opening debit
\* balance / amount) submissions and in no other; from then on every
\* submission is failed with AC01 and the balances stay as they are.
C29_SuccessfulFinitelyOften ==
    /\ [](Called /\ ImmediatelyExecutable =>
            IF calls <= Affordable
            THEN Outcome.status = "successful" /\ accounts = AfterExecutions(calls)
            ELSE Exhausted)
    /\ (ImmediatelyExecutable => <>[]Exhausted)

\* two submissions refused after two or more successful ones
C29_Witness ==
    /\ Called
    /\ ImmediatelyExecutable
    /\ Affordable >= 2
    /\ calls = Affordable + 2
    /\ Exhausted

\* C30: an instruction without tokens, the empty text or a text of white
\* space only, is failed with SY03; every other instruction whose trimmed
\* upper-case text begins with neither DEBIT nor CREDIT is failed with SY01.
C30_NoTokensIsSY03 ==
    (Called /\ request[1].instruction.type = "string") =>
        LET text == ToUpperCase(Trim(request[1].instruction.str))
        IN  IF text = ""
            THEN Outcome.status = "failed" /\ Outcome.status_code = "SY03"
            ELSE (~BeginsWith(text, "DEBIT") /\ ~BeginsWith(text, "CREDIT"))
                    => Outcome.status = "failed" /\ Outcome.status_code = "SY01"

====
